---- MODULE Spec2Model ----
(***************************************************************************)
(* A model of src/type.py (terminal-type): the TypingTest widget, the      *)
(* TerminalType input handler that drives it, and the asyncio tasks        *)
(* start_countdown / countdown_timer.                                      *)
(*                                                                         *)
(* Strings are sequences of one-character strings, so that strip(),        *)
(* split(), join() and the colour markup are computed character by         *)
(* character.  time.time() is a clock counted in 1/Res of a second; it     *)
(* never runs backwards.  An optional value (start_time, timer_task) is a  *)
(* sequence of length 0 (None) or 1.                                       *)
(***************************************************************************)
EXTENDS Integers, Sequences, FiniteSets

\* ------------------------------------------------------------------ bounds
Res == 2            \* clock readings per second
Epoch == 1          \* the clock reading when the app is constructed (never 0)
MaxTime == 5        \* the last clock reading explored
MaxDuration == 1    \* test_duration ranges over -1..MaxDuration
MaxTyped == 3       \* word submissions explored per session
MaxPending == 2     \* start_countdown tasks scheduled and not yet run
MaxTicks == 2       \* direct calls of update_countdown explored (TickSpec)
MaxWpm == 150       \* the largest wpm given to wpm_to_percentile (ScoreSpec)
MaxWords == 4       \* the largest counter given to show_end_screen (ScoreSpec)

\* ----------------------------------------------------------- python strings
Whitespace == {" ", "\t", "\n"}

Range(s) == {s[i] : i \in 1..Len(s)}

Max(a, b) == IF a >= b THEN a ELSE b

Min(a, b) == IF a <= b THEN a ELSE b

RECURSIVE LStrip(_)
LStrip(s) ==
    IF s = <<>> THEN <<>>
    ELSE IF Head(s) \in Whitespace THEN LStrip(Tail(s)) ELSE s

RECURSIVE RStrip(_)
RStrip(s) ==
    IF s = <<>> THEN <<>>
    ELSE IF s[Len(s)] \in Whitespace THEN RStrip(SubSeq(s, 1, Len(s) - 1)) ELSE s

\* str.strip()
Strip(s) == RStrip(LStrip(s))

\* the length of the leading run of non-whitespace characters of s
RECURSIVE TokenLen(_)
TokenLen(s) ==
    IF s = <<>> \/ Head(s) \in Whitespace THEN 0 ELSE 1 + TokenLen(Tail(s))

\* str.split() with no argument: the maximal runs of non-whitespace
RECURSIVE Split(_)
Split(s) ==
    LET t == LStrip(s) IN
    IF t = <<>> THEN <<>>
    ELSE <<SubSeq(t, 1, TokenLen(t))>> \o Split(SubSeq(t, TokenLen(t) + 1, Len(t)))

\* sep.join(parts)
RECURSIVE Join(_, _)
Join(sep, parts) ==
    IF parts = <<>> THEN <<>>
    ELSE IF Len(parts) = 1 THEN parts[1]
    ELSE parts[1] \o sep \o Join(sep, Tail(parts))

\* c * n for a one-character string c
Repeat(c, n) == [i \in 1..n |-> c]

\* Python truthiness of an optional float: None and 0.0 are both falsy
Truthy(opt) == opt # <<>> /\ opt[1] # 0

\* ------------------------------------------------------------------ SENTENCES
\* The sentence list, cut down to two sentences of three words in all: "a b"
\* and "A".  The words differ in letter and in case only.
SENTENCES == << <<"a", " ", "b">>, <<"A">> >>

\* random.choices in place of random.sample: sentences drawn with replacement
Perms_WithReplacement(n) == [1..n -> 1..n]

Perms(n) ==
    {p \in [1..n -> 1..n] : \A i, j \in 1..n : p[i] = p[j] => i = j}

\* generate_text: every text random.sample can produce
generate_text ==
    {Join(<<" ">>, [i \in 1..Len(SENTENCES) |-> SENTENCES[p[i]]]) :
        p \in Perms(Len(SENTENCES))}

\* what the input box holds when an Input.Changed event arrives: a word being
\* typed ("a"), a word and the space that submits it ("a ", right for the
\* word "a", wrong by case for "A", wrong for "b"), and a space alone
Inputs ==
    { <<"a">>, <<"a", " ">>, <<" ">> }

\* ------------------------------------------------------------------- markup
Green(w) == <<"[", "g", "r", "e", "e", "n", "]">> \o w
            \o <<"[", "/", "g", "r", "e", "e", "n", "]">>

Red(w) == <<"[", "r", "e", "d", "]">> \o w \o <<"[", "/", "r", "e", "d", "]">>

Gray(w) == <<"[", "g", "r", "a", "y", "]">> \o w
           \o <<"[", "/", "g", "r", "a", "y", "]">>

VARIABLES
    mounted,             \* on_mount has run
    test_duration, countdown, words, current_word_index, start_time,
    words_typed, timer_task, correct_words, incorrect_words, total_keystrokes,
    content,             \* what the widget shows: the last self.update(...)
    sub_title,           \* the header: the last update_header
    input_value,         \* the Input widget's value
    event_value,         \* event.value of the last Input.Changed handled
    pending,             \* start_countdown tasks created and not yet run
    timers,              \* the countdown_timer tasks: [pc, wake]
    now,                 \* time.time()
    error,               \* the exception that ended the app, or "none"
    calls,               \* how often update_countdown / show_end_screen ran
    probe                \* ScoreSpec: a score function, its arguments, its result

vars == <<mounted, test_duration, countdown, words, current_word_index,
          start_time, words_typed, timer_task, correct_words, incorrect_words,
          total_keystrokes, content, sub_title, input_value, event_value,
          pending, timers, now, error, calls, probe>>

\* the app's own state
app == <<mounted, test_duration, countdown, words, current_word_index,
         start_time, words_typed, timer_task, correct_words, incorrect_words,
         total_keystrokes, content, sub_title, input_value, event_value,
         pending, timers, now, error, calls>>

\* ---------------------------------------------------------------- results
Returned(v) == [raised |-> "none", value |-> v]

Raised(e) == [raised |-> e, value |-> 0]

\* calculate_wpm at clock reading t.  elapsed_time / 60 is 0.0 when t is the
\* reading start_time holds, and a float division by 0.0 raises.
calculate_wpm(st, typed, t) ==
    IF Truthy(st)
    THEN IF t - st[1] = 0
         THEN Raised("ZeroDivisionError")
         ELSE Returned((typed * 60 * Res) \div (t - st[1]))
    ELSE Returned(0)

\* wpm_to_percentile, in sixths of a percentile point (wpm / 30 * 25 is
\* 5 * wpm / 6), so that the value is exact
wpm_to_percentile_NoCap(wpm) ==
    IF wpm < 30 THEN Max(5 * wpm, 6)
    ELSE IF wpm < 60 THEN 150 + 5 * (wpm - 30)
    ELSE IF wpm < 90 THEN 300 + 5 * (wpm - 60)
    ELSE 450 + 5 * (wpm - 90)

wpm_to_percentile(wpm) ==
    IF wpm < 30 THEN Max(5 * wpm, 6)
    ELSE IF wpm < 60 THEN 150 + 5 * (wpm - 30)
    ELSE IF wpm < 90 THEN 300 + 5 * (wpm - 60)
    ELSE Min(450 + 5 * (wpm - 90), 594)

total_width == 24

create_percentile_graph(wpm) ==
    LET percentile == wpm_to_percentile(wpm)
        filled == Min(wpm \div 5, total_width)
        bar == Repeat("#", filled)
               \o (IF filled < total_width
                   THEN <<"+">> \o Repeat(".", total_width - filled - 1)
                   ELSE <<>>)
        marker_position == Min(wpm \div 5, total_width)
    IN [bar |-> bar,
        marker |-> Repeat(" ", marker_position) \o <<"^">>,
        wpm |-> wpm,
        percentile |-> percentile,
        comment |-> IF percentile < 150 THEN "Keep practicing"
                    ELSE IF percentile < 300 THEN "Good effort"
                    ELSE IF percentile < 450 THEN "Great job"
                    ELSE "Excellent"]

NoGraph == [bar |-> <<>>, marker |-> <<>>, wpm |-> 0, percentile |-> 0,
            comment |-> ""]

\* "accuracy = (correct_words / total_words) * 100 if total_words > 0 else 0",
\* as the fraction num / den; a division by 0 raises
accuracy_value_NoGuard(correct, total) ==
    IF total >= 0
    THEN IF total = 0
         THEN [raised |-> "ZeroDivisionError", num |-> 0, den |-> 1]
         ELSE [raised |-> "none", num |-> 100 * correct, den |-> total]
    ELSE [raised |-> "none", num |-> 0, den |-> 1]

accuracy_value(correct, total) ==
    IF total > 0
    THEN [raised |-> "none", num |-> 100 * correct, den |-> total]
    ELSE [raised |-> "none", num |-> 0, den |-> 1]

\* the accuracy shown, "{accuracy:.2f}", in hundredths of a percent
accuracy(correct, total) ==
    LET a == accuracy_value(correct, total)
    IN (2 * 100 * a.num + a.den) \div (2 * a.den)

\* what self.update(content) leaves on the widget
Shown(text) ==
    [kind |-> "words", text |-> text, final_wpm |-> 0, accuracy |-> 0,
     correct_words |-> 0, incorrect_words |-> 0, total_keystrokes |-> 0,
     graph |-> NoGraph]

Blank == [Shown(<<>>) EXCEPT !.kind = "blank"]

\* update_content: the text it hands to self.update
update_content(ws, idx) ==
    LET current == IF idx < Len(ws) THEN Gray(ws[idx + 1]) \o <<" ">> ELSE <<>>
        rest == current \o Join(<<" ">>, SubSeq(ws, idx + 2, Len(ws)))
        all == IF idx > 0
               THEN Join(<<" ">>, SubSeq(ws, 1, idx)) \o <<" ">> \o rest
               ELSE rest
    IN Shown(Strip(all))

\* show_end_screen: the end message handed to self.update, given that
\* calculate_wpm returned final_wpm
show_end_screen(final_wpm, correct, incorrect, keystrokes) ==
    [kind |-> "end", text |-> <<>>, final_wpm |-> final_wpm,
     accuracy |-> accuracy(correct, correct + incorrect),
     correct_words |-> correct, incorrect_words |-> incorrect,
     total_keystrokes |-> keystrokes,
     graph |-> create_percentile_graph(final_wpm)]

\* --------------------------------------------------------- check_word pieces
\* "if not self.start_time: self.start_time = time.time()"
StartClock_Always(st, t) == <<t>>

StartClock(st, t) == IF ~Truthy(st) THEN <<t>> ELSE st

\* "typed_word.strip() == self.words[self.current_word_index]"
IsCorrect_IgnoreCase(typed_word, expected) ==
    LET Lower(c) == IF c = "A" THEN "a" ELSE c
    IN [i \in 1..Len(Strip(typed_word)) |-> Lower(Strip(typed_word)[i])]
          = [i \in 1..Len(expected) |-> Lower(expected[i])]

IsCorrect(typed_word, expected) == Strip(typed_word) = expected

\* "self.total_keystrokes += len(typed_word) + 1  # +1 for space"
Keystrokes_NoSpace(typed_word) == Len(typed_word)

Keystrokes_Minus(typed_word) == Len(typed_word) - 1

Keystrokes(typed_word) == Len(typed_word) + 1

\* the two counters after the word is judged: <<correct_words, incorrect_words>>
Tally_Both(correct, cw, iw) ==
    IF correct THEN <<cw + 1, iw>> ELSE <<cw + 1, iw + 1>>

Tally(correct, cw, iw) ==
    IF correct THEN <<cw + 1, iw>> ELSE <<cw, iw + 1>>

\* the word at the cursor, marked up
Mark(correct, w) == IF correct THEN Green(w) ELSE Red(w)

\* "self.words[self.current_word_index] = f\"[green]{...}[/green]\"", or [red]
Judge(ws, idx, correct) ==
    [ws EXCEPT ![idx + 1] = Mark(correct, ws[idx + 1])]

\* "self.words.extend(self.generate_text().split())"
Extend_Replace(ws, text) == Split(text)

Extend(ws, text) == ws \o Split(text)

\* "if self.current_word_index >= len(self.words)"
NeedsRefill_Late(idx, length) == idx > length

NeedsRefill(idx, length) == idx >= length

\* "while self.countdown > 0"
TimerRuns_Forever(c) == c >= 0

TimerRuns(c) == c > 0

\* no score function applied
NoProbe == [fn |-> "none", args |-> <<>>, result |-> 0, shown |-> 0]

\* ----------------------------------------------------------------------- Init
\* TerminalType(test_duration=args.time): argparse accepts any integer, and
\* TypingTest.__init__ stores it unchecked.
Init ==
    /\ mounted = FALSE
    /\ test_duration \in -1..MaxDuration
    /\ countdown = test_duration
    /\ \E text \in generate_text : words = Split(text)
    /\ current_word_index = 0
    /\ start_time = <<>>
    /\ words_typed = 0
    /\ timer_task = <<>>
    /\ correct_words = 0
    /\ incorrect_words = 0
    /\ total_keystrokes = 0
    /\ content = Blank
    /\ sub_title = [wpm |-> 0, countdown |-> 0]
    /\ input_value = <<>>
    /\ event_value = <<>>
    /\ pending = 0
    /\ timers = <<>>
    /\ now = Epoch
    /\ error = "none"
    /\ calls = [update_countdown |-> 0, show_end_screen |-> 0]
    /\ probe = NoProbe

\* TerminalType.on_mount
on_mount ==
    /\ ~mounted
    /\ mounted' = TRUE
    /\ content' = update_content(words, current_word_index)
    /\ UNCHANGED <<probe, test_duration, countdown, words, current_word_index,
                   start_time, words_typed, timer_task, correct_words,
                   incorrect_words, total_keystrokes, sub_title, input_value,
                   event_value, pending, timers, now, error, calls>>

\* time passes
Advance ==
    /\ error = "none"
    /\ now < MaxTime
    /\ now' = now + 1
    /\ UNCHANGED <<probe, mounted, test_duration, countdown, words,
                   current_word_index, start_time, words_typed, timer_task,
                   correct_words, incorrect_words, total_keystrokes, content,
                   sub_title, input_value, event_value, pending, timers,
                   error, calls>>
\* TerminalType.on_input_changed(event) with event.value = value, including
\* the check_word and the update_header it calls.  The handler runs without
\* yielding; d is the time it takes between check_word's reading of the clock
\* and calculate_wpm's, which may be too short for the clock to show.
\* check_word raises IndexError when the cursor is past the stream.
on_input_changed(value, d) ==
    /\ mounted
    /\ error = "none"
    /\ d \in 0..1
    /\ now + d <= MaxTime
    /\ LET schedule == ~Truthy(start_time)
           submit == " " \in Range(value)
           typed_word == Strip(value)
           judged == submit /\ current_word_index < Len(words)
           correct == IsCorrect(typed_word, words[current_word_index + 1])
           tally == Tally(correct, correct_words, incorrect_words)
           marked == Judge(words, current_word_index, correct)
       IN
       /\ schedule => pending < MaxPending
       /\ submit => words_typed < MaxTyped
       /\ event_value' = value
       /\ pending' = IF schedule THEN pending + 1 ELSE pending
       /\ now' = now + d
       /\ IF submit
          THEN /\ total_keystrokes' = total_keystrokes + Keystrokes(typed_word)
               /\ start_time' = StartClock(start_time, now)
          ELSE UNCHANGED <<total_keystrokes, start_time>>
       /\ IF judged
          THEN /\ correct_words' = tally[1]
               /\ incorrect_words' = tally[2]
               /\ current_word_index' = current_word_index + 1
               /\ words_typed' = words_typed + 1
               /\ IF NeedsRefill(current_word_index + 1, Len(words))
                  THEN \E text \in generate_text :
                          words' = Extend(marked, text)
                  ELSE words' = marked
               /\ content' = update_content(words', current_word_index')
          ELSE UNCHANGED <<correct_words, incorrect_words, current_word_index,
                           words_typed, words, content>>
       /\ IF submit /\ ~judged
          THEN /\ error' = "IndexError"
               /\ UNCHANGED <<input_value, sub_title>>
          ELSE LET wpm == calculate_wpm(start_time', words_typed', now')
               IN /\ input_value' = IF submit THEN <<>> ELSE value
                  /\ error' = wpm.raised
                  /\ sub_title' = IF wpm.raised = "none"
                                  THEN [wpm |-> wpm.value, countdown |-> countdown]
                                  ELSE sub_title
    /\ UNCHANGED <<probe, mounted, test_duration, countdown, timer_task, timers, calls>>

\* start_countdown's "if not self.start_time"
ShouldStart_Unguarded(st) == TRUE

ShouldStart(st) == ~Truthy(st)

\* one scheduled start_countdown task runs (to completion: it never awaits)
start_countdown ==
    /\ error = "none"
    /\ pending > 0
    /\ pending' = pending - 1
    /\ IF ShouldStart(start_time)
       THEN /\ start_time' = <<now>>
            /\ timers' = Append(timers, [pc |-> "created", wake |-> 0])
            /\ timer_task' = <<Len(timers) + 1>>
       ELSE UNCHANGED <<start_time, timers, timer_task>>
    /\ UNCHANGED <<probe, mounted, test_duration, countdown, words,
                   current_word_index, words_typed, correct_words,
                   incorrect_words, total_keystrokes, content, sub_title,
                   input_value, event_value, now, error, calls>>

\* the loop head of countdown_timer: sleep for a second, or finish
Loop(timer, c, t) ==
    IF TimerRuns(c)
    THEN [pc |-> "sleeping", wake |-> t + Res]
    ELSE [pc |-> "done", wake |-> timer.wake]

\* a countdown_timer task starts running
countdown_timer_start(i) ==
    /\ error = "none"
    /\ timers[i].pc = "created"
    /\ timers' = [timers EXCEPT ![i] = Loop(timers[i], countdown, now)]
    /\ UNCHANGED <<probe, mounted, test_duration, countdown, words,
                   current_word_index, start_time, words_typed, timer_task,
                   correct_words, incorrect_words, total_keystrokes, content,
                   sub_title, input_value, event_value, pending, now, error,
                   calls>>

\* update_countdown at clock reading t: [raised, countdown, content, calls].
\* time.time() - None raises TypeError; an exception of calculate_wpm leaves
\* show_end_screen before its self.update.
update_countdown(t) ==
    IF start_time = <<>>
    THEN [raised |-> "TypeError", countdown |-> countdown, content |-> content,
          calls |-> [calls EXCEPT !.update_countdown = @ + 1]]
    ELSE LET elapsed == (t - start_time[1]) \div Res
             left == Max(test_duration - elapsed, 0)
             final_wpm == calculate_wpm(start_time, words_typed, t)
         IN IF left # 0
            THEN [raised |-> "none", countdown |-> left, content |-> content,
                  calls |-> [calls EXCEPT !.update_countdown = @ + 1]]
            ELSE [raised |-> final_wpm.raised,
                  countdown |-> left,
                  content |-> IF final_wpm.raised = "none"
                              THEN show_end_screen(final_wpm.value,
                                       correct_words, incorrect_words,
                                       total_keystrokes)
                              ELSE content,
                  calls |-> [update_countdown |-> calls.update_countdown + 1,
                             show_end_screen |-> calls.show_end_screen + 1]]

\* asyncio.sleep(1) of task i is over: update_countdown, then the loop head.
\* An exception ends the task, not the app.
countdown_timer_wake(i) ==
    /\ error = "none"
    /\ timers[i].pc = "sleeping"
    /\ now >= timers[i].wake
    /\ LET r == update_countdown(now)
       IN /\ countdown' = r.countdown
          /\ content' = r.content
          /\ calls' = r.calls
          /\ timers' = [timers EXCEPT ![i] =
                           IF r.raised = "none"
                           THEN Loop(timers[i], r.countdown, now)
                           ELSE [pc |-> "failed", wake |-> timers[i].wake]]
    /\ UNCHANGED <<probe, mounted, test_duration, words, current_word_index,
                   start_time, words_typed, timer_task, correct_words,
                   incorrect_words, total_keystrokes, sub_title, input_value,
                   event_value, pending, now, error>>

Next ==
    \/ on_mount
    \/ \E value \in Inputs, d \in 0..1 : on_input_changed(value, d)
    \/ start_countdown
    \/ \E i \in 1..Len(timers) : countdown_timer_start(i)
    \/ \E i \in 1..Len(timers) : countdown_timer_wake(i)
    \/ Advance

Spec == Init /\ [][Next]_vars
\* ------------------------------------------------------------------ TickSpec
\* update_countdown called from outside the timer task, at any time: the
\* method is public, and nothing in it looks at who calls it.
tick ==
    /\ mounted
    /\ error = "none"
    /\ calls.update_countdown < MaxTicks
    /\ LET r == update_countdown(now)
       IN /\ countdown' = r.countdown
          /\ content' = r.content
          /\ calls' = r.calls
          /\ error' = r.raised
    /\ UNCHANGED <<probe, mounted, test_duration, words, current_word_index,
                   start_time, words_typed, timer_task, correct_words,
                   incorrect_words, total_keystrokes, sub_title, input_value,
                   event_value, pending, timers, now>>

TickNext ==
    \/ Next
    \/ tick

TickSpec == Init /\ [][TickNext]_vars

\* -------------------------------------------------------------------- claims
BatchLen == Len(Split(CHOOSE text \in generate_text : TRUE))

Ended == countdown = 0 /\ content.kind = "end"

\* C1: at every point correct_words + incorrect_words = words_typed and the
\* cursor current_word_index = words_typed.
C1_CountersAgree ==
    /\ correct_words + incorrect_words = words_typed
    /\ current_word_index = words_typed

\* C1's case: right and wrong words have been submitted and the timer has ticked
C1_Witness ==
    /\ correct_words >= 1
    /\ incorrect_words >= 1
    /\ calls.update_countdown >= 1

\* C2: a submission is judged Correct exactly when the trimmed input equals
\* the expected word, case and all; anything else, an empty or blank input
\* included, is judged Incorrect without failing; exactly one of the two
\* counters goes up by one.
C2_JudgedByExactMatch ==
    [][words_typed' # words_typed =>
        LET expected == words[current_word_index + 1]
            hit == Strip(event_value') = expected
            blank == \A i \in 1..Len(event_value') : event_value'[i] \in Whitespace
        IN /\ words_typed' = words_typed + 1
           /\ words'[current_word_index + 1] =
                 (IF hit THEN Green(expected) ELSE Red(expected))
           /\ correct_words' = correct_words + (IF hit THEN 1 ELSE 0)
           /\ incorrect_words' = incorrect_words + (IF hit THEN 0 ELSE 1)
           /\ blank => incorrect_words' = incorrect_words + 1
           /\ error' # "IndexError"]_vars

\* C2's case: a word was judged right, and a blank input has just been
\* judged wrong
C2_Witness ==
    /\ correct_words >= 1
    /\ incorrect_words >= 1
    /\ event_value = <<" ">>
    /\ words[current_word_index] = Red(<<"b">>)

\* C3: the stream never shrinks, and at least one word lies at or after the
\* cursor, initially and after every check_word.
C3_RefillInvariant ==
    /\ [](Len(words) - current_word_index >= 1)
    /\ [][Len(words') >= Len(words)]_vars

\* C3's case: the last word of the first batch was submitted, and the stream
\* was refilled
C3_Witness ==
    /\ current_word_index = BatchLen
    /\ Len(words) = 2 * BatchLen

\* C4: once the countdown is 0 and the end screen is up, nothing changes the
\* stream, the cursor, the counters or what is shown.
C4_EndedIsFinal ==
    [][Ended => UNCHANGED <<words, current_word_index, words_typed,
                            correct_words, incorrect_words, total_keystrokes,
                            content>>]_vars

\* C5: update_countdown called again once countdown = 0 leaves the result
\* shown as it was.  Stated for a session of positive duration in which no
\* word was submitted since the result was produced.
C5_TickIdempotentAfterEnd ==
    [][(/\ Ended
        /\ test_duration > 0
        /\ content.correct_words = correct_words
        /\ content.incorrect_words = incorrect_words
        /\ content.total_keystrokes = total_keystrokes
        /\ calls'.update_countdown # calls.update_countdown)
          => content' = content]_vars

\* C6: update_countdown does not run again after the tick that brought the
\* countdown to 0, so the end screen is produced once, and only once.
C6_TickStopsAtEnd ==
    /\ [](/\ calls.show_end_screen <= 1
          /\ \A i \in 1..Len(timers) :
                (timers[i].pc = "done" /\ calls.update_countdown >= 1)
                    => calls.show_end_screen = 1)
    /\ [][countdown = 0 => calls' = calls]_vars

\* C6's case: the timer ticked the countdown down to 0, finished, and a
\* second has passed since
C6_Witness ==
    /\ Ended
    /\ calls.show_end_screen = 1
    /\ \E i \in 1..Len(timers) :
          timers[i].pc = "done" /\ now >= timers[i].wake + Res

\* C7: start_time is None until the first check_word or start_countdown sets
\* it to the clock's reading, and it never changes afterwards.
C7_StartTimeSetOnce ==
    /\ [](start_time = <<>> <=> (words_typed = 0 /\ timers = <<>>))
    /\ [][IF start_time = <<>>
          THEN start_time' = <<>> \/ start_time' = <<now>>
          ELSE start_time' = start_time]_vars

\* C7's case: start_countdown set the clock, and a word was submitted later
C7_Witness ==
    /\ start_time # <<>>
    /\ timers # <<>>
    /\ words_typed >= 1
    /\ now > start_time[1]

\* C8: calculate_wpm returns 0 before the clock starts, and from then on a
\* non-negative integer, the floor of words_typed / (elapsed seconds / 60).
\* Stated for a session of positive duration.
C8_WpmIsFloor ==
    LET wpm == calculate_wpm(start_time, words_typed, now)
        scaled == words_typed * 60 * Res
    IN IF test_duration <= 0 THEN TRUE
       ELSE IF start_time = <<>>
       THEN wpm = Returned(0)
       ELSE /\ wpm.raised = "none"
            /\ wpm.value >= 0
            /\ wpm.value * (now - start_time[1]) <= scaled
            /\ (wpm.value + 1) * (now - start_time[1]) > scaled

\* C9: with the clock started and no time elapsed, calculate_wpm returns 0
\* and update_header does not divide by zero.  Stated for a session of
\* positive duration.
C9_ZeroElapsedIsZero ==
    test_duration > 0 =>
        /\ error # "ZeroDivisionError"
        /\ (start_time # <<>> /\ now = start_time[1])
              => calculate_wpm(start_time, words_typed, now) = Returned(0)

\* C10: a session with test_duration <= 0 never accepts a word and never arms
\* a countdown.  Stated for the sessions no exception has ended.
C10_NonPositiveDurationRejected ==
    (test_duration <= 0 /\ error = "none") => (words_typed = 0 /\ timers = <<>>)
\* update_countdown has just run
Ticked == calls'.update_countdown # calls.update_countdown

\* C11: the countdown stays within 0..test_duration, is
\* max(test_duration - floor(now - start_time), 0) after each tick, and no
\* tick raises it.
C11_CountdownClamped ==
    /\ [](0 <= countdown /\ countdown <= test_duration)
    /\ [][Ticked =>
            /\ countdown' =
                  Max(test_duration - ((now' - start_time[1]) \div Res), 0)
            /\ countdown' <= countdown]_vars

\* C12 as claimed: a submission adds the length of the input before trimming,
\* plus one, to total_keystrokes.
C12_KeystrokesCountRawInput ==
    [][words_typed' # words_typed =>
          total_keystrokes' = total_keystrokes + Len(event_value') + 1]_vars

\* C12 as amended: a submission through on_input_changed adds the length of
\* the trimmed event value, plus one; nothing else changes total_keystrokes,
\* which starts at 0, so that it is the sum of these over all submissions.
C12_KeystrokesCountTrimmedInput ==
    /\ [](words_typed = 0 => total_keystrokes = 0)
    /\ [][IF words_typed' # words_typed
          THEN total_keystrokes' =
                  total_keystrokes + Len(Strip(event_value')) + 1
          ELSE total_keystrokes' = total_keystrokes]_vars

\* C12's case: "a " and " " were submitted, three keystrokes in all
C12_Witness ==
    /\ words_typed = 2
    /\ total_keystrokes = 3
\* the words generate_text can put into the stream
StreamWords == UNION {Range(Split(text)) : text \in generate_text}

\* the words as check_word leaves them
JudgedWords == {Green(x) : x \in StreamWords} \cup {Red(x) : x \in StreamWords}

Judged(w) == w \in JudgedWords

\* C13: the stream only grows at its end; a step changes no slot but the one
\* at the cursor, and that one only as it is judged; a judged slot is never
\* judged again.
C13_JudgedSlotsImmutable ==
    /\ [](\A i \in 1..Len(words) : Judged(words[i]) <=> i <= current_word_index)
    /\ [][/\ Len(words') >= Len(words)
          /\ \A i \in 1..Len(words) :
                words'[i] # words[i] =>
                    /\ i = current_word_index + 1
                    /\ current_word_index' = current_word_index + 1
                    /\ Judged(words'[i])
                    /\ ~Judged(words[i])]_vars

\* C13's case: the first batch is judged to its last slot, the stream was
\* refilled, and the judged slots are still there
C13_Witness ==
    /\ current_word_index = BatchLen
    /\ Len(words) > BatchLen
    /\ \A i \in 1..BatchLen : Judged(words[i])

\* a check_word step
Submitted == " " \in Range(event_value') /\ total_keystrokes' > total_keystrokes

\* C14: the counters and the cursor are never negative and never go down,
\* words_typed changes in check_word only, and the cursor stays within the
\* stream.
C14_CountersMonotone ==
    /\ [](/\ words_typed >= 0 /\ correct_words >= 0 /\ incorrect_words >= 0
          /\ total_keystrokes >= 0
          /\ 0 <= current_word_index /\ current_word_index <= Len(words))
    /\ [][/\ words_typed' >= words_typed
          /\ correct_words' >= correct_words
          /\ incorrect_words' >= incorrect_words
          /\ total_keystrokes' >= total_keystrokes
          /\ current_word_index' >= current_word_index
          /\ words_typed' # words_typed => Submitted]_vars

\* C14's case: words were submitted before and after a timer tick
C14_Witness ==
    /\ calls.update_countdown >= 1
    /\ words_typed >= 2
    /\ total_keystrokes >= 2
    /\ sub_title.countdown < test_duration
    /\ event_value = <<" ">>
RECURSIVE Flatten(_)
Flatten(parts) ==
    IF parts = <<>> THEN <<>> ELSE Head(parts) \o Flatten(Tail(parts))

\* the orders in which every sentence of SENTENCES appears exactly once
FullOrders ==
    {p \in [1..Len(SENTENCES) -> 1..Len(SENTENCES)] :
        \A s \in 1..Len(SENTENCES) :
            Cardinality({i \in 1..Len(SENTENCES) : p[i] = s}) = 1}

\* the words of the sentences taken in order p, each sentence's words together
\* and in their own order
WordsInOrder(p) ==
    Flatten([i \in 1..Len(SENTENCES) |-> Split(SENTENCES[p[i]])])

SentenceWordCount == Len(WordsInOrder([i \in 1..Len(SENTENCES) |-> i]))

\* the batches in which every sentence appears exactly once
FullBatches == {WordsInOrder(p) : p \in FullOrders}

\* every text of generate_text splits into such a batch, which is not empty
GeneratedAreFull ==
    \A text \in generate_text :
        /\ Split(text) # <<>>
        /\ Len(Split(text)) = SentenceWordCount
        /\ Split(text) \in FullBatches

\* C15: every batch of generate_text is non-empty and holds each sentence of
\* SENTENCES exactly once, its words together and in order, so that all
\* batches have the same length; the stream is made of such batches.
C15_BatchIsFullPermutation ==
    /\ GeneratedAreFull
    /\ Len(words) % SentenceWordCount = 0
    /\ \A k \in 0..((Len(words) \div SentenceWordCount) - 1) :
          \E batch \in FullBatches :
             \A j \in 1..SentenceWordCount :
                words[k * SentenceWordCount + j] \in
                    {batch[j], Green(batch[j]), Red(batch[j])}

\* C15's case: the stream holds a judged first batch and a second batch that
\* generate_text drew in another order
C15_Witness ==
    /\ Len(words) = 2 * SentenceWordCount
    /\ current_word_index = SentenceWordCount
    /\ \E p, q \in FullOrders :
          /\ p # q
          /\ \A j \in 1..SentenceWordCount :
                words[j] \in {Green(WordsInOrder(p)[j]), Red(WordsInOrder(p)[j])}
          /\ SubSeq(words, SentenceWordCount + 1, Len(words)) = WordsInOrder(q)
\* ----------------------------------------------------------------- ScoreSpec
\* the score functions on their own, applied to the arguments drawn here
apply_wpm_to_percentile ==
    /\ \E wpm \in 0..MaxWpm :
          probe' = [fn |-> "wpm_to_percentile", args |-> <<wpm>>,
                    result |-> wpm_to_percentile(wpm),
                    shown |-> create_percentile_graph(wpm).percentile]
    /\ UNCHANGED app

\* show_end_screen's accuracy for the counters drawn here
apply_accuracy ==
    /\ \E correct \in 0..MaxWords, incorrect \in 0..MaxWords :
          probe' = [fn |-> "accuracy", args |-> <<correct, correct + incorrect>>,
                    result |-> accuracy_value(correct, correct + incorrect),
                    shown |-> show_end_screen(0, correct, incorrect, 0).accuracy]
    /\ UNCHANGED app

ScoreNext ==
    \/ apply_wpm_to_percentile
    \/ apply_accuracy

ScoreSpec == Init /\ [][ScoreNext]_vars

\* C16 as claimed: wpm_to_percentile is wpm/30*25 below 30, 25+(wpm-30)/30*25
\* below 60, 50+(wpm-60)/30*25 below 90, min(75+(wpm-90)/30*25, 99) from 90
\* on (here times 6); 25 at 30, 75 at 90, 99 at 150; within 0..100.
C16_PercentileCurve ==
    probe.fn = "wpm_to_percentile" =>
        LET wpm == probe.args[1]
        IN /\ probe.result =
                 (IF wpm < 30 THEN 5 * wpm
                  ELSE IF wpm < 60 THEN 6 * 25 + 5 * (wpm - 30)
                  ELSE IF wpm < 90 THEN 6 * 50 + 5 * (wpm - 60)
                  ELSE Min(6 * 75 + 5 * (wpm - 90), 6 * 99))
           /\ wpm = 30 => probe.result = 6 * 25
           /\ wpm = 90 => probe.result = 6 * 75
           /\ wpm = 150 => probe.result = 6 * 99
           /\ 0 <= probe.result /\ probe.result <= 6 * 100

\* C16 as amended: below 30 the value is max(wpm/30*25, 1); the rest as
\* claimed.
C16_PercentileCurveFloorOne ==
    probe.fn = "wpm_to_percentile" =>
        LET wpm == probe.args[1]
        IN /\ probe.result =
                 (IF wpm < 30 THEN Max(5 * wpm, 6 * 1)
                  ELSE IF wpm < 60 THEN 6 * 25 + 5 * (wpm - 30)
                  ELSE IF wpm < 90 THEN 6 * 50 + 5 * (wpm - 60)
                  ELSE Min(6 * 75 + 5 * (wpm - 90), 6 * 99))
           /\ probe.shown = probe.result
           /\ wpm = 30 => probe.result = 6 * 25
           /\ wpm = 90 => probe.result = 6 * 75
           /\ wpm = 150 => probe.result = 6 * 99
           /\ 0 <= probe.result /\ probe.result <= 6 * 100

\* C16's case: wpm_to_percentile(0), where the floor of 1 applies
C16_Witness ==
    /\ probe.fn = "wpm_to_percentile"
    /\ probe.args = <<0>>
    /\ probe.result = 6

\* C17: the accuracy is 0 for no words and 100 * correct / total otherwise;
\* computing it never divides by zero; it lies within 0..100; it is 0 for
\* (0, 0) and 75 for (3, 4).
C17_Accuracy ==
    probe.fn = "accuracy" =>
        LET correct == probe.args[1]
            total == probe.args[2]
            a == probe.result
        IN /\ a.raised = "none"
           /\ a.den > 0
           /\ total = 0 => a.num = 0
           /\ total > 0 => a.num * total = 100 * correct * a.den
           /\ 0 <= a.num /\ a.num <= 100 * a.den
           /\ (correct = 3 /\ total = 4) => a.num = 75 * a.den
           /\ 0 <= probe.shown /\ probe.shown <= 100 * 100
           /\ 2 * a.den * probe.shown <= 2 * 100 * a.num + a.den
           /\ 2 * a.den * (probe.shown + 1) > 2 * 100 * a.num + a.den

\* C17's case: the accuracy of 3 correct words out of 4
C17_Witness ==
    /\ probe.fn = "accuracy"
    /\ probe.args = <<3, 4>>
    /\ probe.result.num = 75 * probe.result.den
    /\ probe.shown = 7500
\* C18: once the clock is started a countdown timer is armed (or the task that
\* arms it is still to run), without which the session cannot reach Ended;
\* also when the first input event holds a submitted word.  Stated for a
\* session of positive duration that no exception has ended.
C18_TimerArmedOnceStarted ==
    (start_time # <<>> /\ pending = 0 /\ test_duration > 0 /\ error = "none")
        => timers # <<>>

\* C19: a session has one countdown_timer task at most, however many
\* start_countdown tasks were scheduled and however they interleave with
\* check_word: a start_countdown that finds the clock started creates none.
C19_OneTimerAtMost ==
    /\ [](Len(timers) <= 1 /\ (timers # <<>> <=> timer_task = <<1>>))
    /\ [][(pending' < pending /\ start_time # <<>>) => timers' = timers]_vars

\* C19's case: the timer exists, a word was submitted, and a start_countdown
\* task scheduled before the clock started is still to run
C19_Witness ==
    /\ Len(timers) = 1
    /\ words_typed >= 1
    /\ pending >= 1
====
